---- MODULE Spec2Model ----
(***************************************************************************)
(* State-machine model of the todoist34 task API: registration, login,     *)
(* bearer-token authentication, and owner-scoped CRUD on tasks.            *)
(*                                                                         *)
(* Store: the rows of the "users" and "tasks" tables.  A request handler   *)
(* is one action; register_user is cut at its two existence queries and    *)
(* its commit, because those are separate statements on the database and   *)
(* several register requests can be in flight at once.  "resp" holds the   *)
(* request just answered until the framework sends it (Respond).           *)
(*                                                                         *)
(* Optional values (Python None) are sequences: <<>> is None, <<v>> is v.  *)
(***************************************************************************)
EXTENDS Integers, Sequences, FiniteSets, TLC

None == <<>>
Some(v) == <<v>>

(* ------------------------- bounds of the model ------------------------- *)
MaxTasks == 2
MaxTicks == 1
MaxInFlight == 2
MaxUserId == 2

(* -------------------------- program constants -------------------------- *)
ACCESS_TOKEN_EXPIRE_MINUTES == 30
SECRET_KEY == "your-secret-key"
HTTP_200_OK == 200
HTTP_201_CREATED == 201
HTTP_204_NO_CONTENT == 204
HTTP_400_BAD_REQUEST == 400
HTTP_401_UNAUTHORIZED == 401
HTTP_404_NOT_FOUND == 404
HTTP_500_INTERNAL_SERVER_ERROR == 500
min_length == 1
max_length == 200

(* ---------------------------- input domains ---------------------------- *)
Usernames == {"alice", "bob"}
Emails == {"a@x.com", "b@x.com"}
Passwords == {"secret1", "secret2"}
Salts == {"salt1", "salt2"}
Titles == {"Buy milk", "Walk dog"}
Descriptions == {None, Some("2 litres")}
ForeignKeys == {"other-key"}

ClockValues == {k * ACCESS_TOKEN_EXPIRE_MINUTES : k \in 0..MaxTicks}
TaskIds == 1..MaxTasks

UserCreates == [username : Usernames, email : Emails, password : Passwords]
UserLogins == [username : Usernames, password : Passwords]
TaskCreates == [title : Titles, description : Descriptions]

(* TaskUpdate bodies: fields_set is the set of fields the request supplied  *)
(* (pydantic's model_fields_set); a supplied value may be null, a field    *)
(* that was not supplied holds its default, None.                          *)
TaskFields == {"title", "description", "is_completed"}
TaskUpdates ==
    {u \in [title : {None} \cup {Some(t) : t \in Titles},
            description : Descriptions,
            is_completed : {None, Some(TRUE), Some(FALSE)},
            fields_set : SUBSET TaskFields] :
        \A f \in TaskFields \ u.fields_set : u[f] = None}

(* Titles a client can send, the limits of the length among them: the     *)
(* empty string, and strings of max_length and max_length + 1 characters.  *)
RECURSIVE Repeat(_, _)
Repeat(s, n) == IF n = 0 THEN "" ELSE s \o Repeat(s, n - 1)

TitleInputs == {"", "Buy milk", Repeat("x", max_length), Repeat("x", max_length + 1)}

TaskCreateInputs == [title : TitleInputs, description : {None}]

(* Bodies of title and is_completed, each absent, null or a value.         *)
TaskUpdateInputs ==
    {u \in [title : {None} \cup {Some(t) : t \in TitleInputs},
            description : {None},
            is_completed : {None, Some(TRUE), Some(FALSE)},
            fields_set : SUBSET {"title", "is_completed"}] :
        \A f \in TaskFields \ u.fields_set : u[f] = None}

(* Bearer tokens a client can present: the claims and the signing key.     *)
TokenExps == ClockValues \cup {t + ACCESS_TOKEN_EXPIRE_MINUTES : t \in ClockValues}
Tokens ==
    [sub : {None} \cup {Some(u) : u \in Usernames},
     exp : {None} \cup {Some(t) : t \in TokenExps},
     key : {SECRET_KEY}]
    \cup [sub : {Some(u) : u \in Usernames},
          exp : {Some(t + ACCESS_TOKEN_EXPIRE_MINUTES) : t \in ClockValues},
          key : ForeignKeys]
Authorizations == {None} \cup {Some(t) : t \in Tokens}

VARIABLES users, tasks, now, inflight, resp

vars == <<users, tasks, now, inflight, resp>>

(* ------------------------------ responses ------------------------------ *)
Bearer == {<<"WWW-Authenticate", "Bearer">>}

Response(op, auth, task_id, req, held, status, detail, headers, body) ==
    [op |-> op, auth |-> auth, task_id |-> task_id, req |-> req, held |-> held,
     status |-> status, detail |-> detail, headers |-> headers, body |-> body]

NoResp == Response("none", None, 0, None, FALSE, 0, "", {}, {})

(* An exception no handler catches: the session is closed without commit   *)
(* and the framework answers 500.                                          *)
ServerError(op, auth, task_id, req, held) ==
    Response(op, auth, task_id, req, held, HTTP_500_INTERNAL_SERVER_ERROR,
             "Internal Server Error", {}, {})

(* The request body fails the validation of its schema: the handler is    *)
(* not called.                                                             *)
RequestValidationError(op, auth, task_id, req) ==
    Response(op, auth, task_id, req, FALSE, 422, "value is not valid", {}, {})

(* --------------------------- rows and schemas -------------------------- *)
(* TaskCreate: title: str = Field(..., min_length=1, max_length=200)       *)
TaskCreateValid(task) ==
    Len(task.title) >= min_length /\ Len(task.title) <= max_length

(* TaskUpdate: title: Optional[str] = Field(None, min_length=1,            *)
(* max_length=200); null passes, the limits bind a string.                 *)
TaskUpdateValid(task_update) ==
    \/ task_update.title = None
    \/ /\ Len(task_update.title[1]) >= min_length
       /\ Len(task_update.title[1]) <= max_length

Max(S) == CHOOSE x \in S : \A y \in S : y <= x

(* INTEGER PRIMARY KEY of SQLite: one more than the largest id in use.     *)
NextId(rows) == IF rows = {} THEN 1 ELSE Max({r.id : r \in rows}) + 1

UserResponse(u) ==
    [id |-> u.id, username |-> u.username, email |-> u.email,
     created_at |-> u.created_at]

(* TaskResponse declares is_completed: bool; a row holding NULL there      *)
(* fails the response validation.                                          *)
TaskResponseValid(t) == t.title # None /\ t.is_completed # None

(* --------------------------- services/security ------------------------- *)
hash_password(password, salt) ==
    [scheme |-> "bcrypt", salt |-> salt, checksum |-> <<"bcrypt", salt, password>>]

verify_password(plain_password, hashed_password) ==
    hashed_password.checksum = <<"bcrypt", hashed_password.salt, plain_password>>

(* A token that carries the expiry and drops the claims it was given.     *)
create_access_token_no_claims(data, expires_delta, utcnow) ==
    [sub |-> None, exp |-> Some(utcnow + ACCESS_TOKEN_EXPIRE_MINUTES), key |-> SECRET_KEY]

create_access_token(data, expires_delta, utcnow) ==
    LET expire == IF expires_delta # None
                  THEN utcnow + expires_delta[1]
                  ELSE utcnow + ACCESS_TOKEN_EXPIRE_MINUTES
    IN  [sub |-> data.sub, exp |-> Some(expire), key |-> SECRET_KEY]

(* A decode that verifies the signature and skips the expiry.              *)
jwt_decode_no_expiry(token, key, utcnow) ==
    IF token.key # key THEN None
    ELSE Some([sub |-> token.sub, exp |-> token.exp])

(* jwt.decode: None stands for a raised JWTError (bad signature, or an     *)
(* "exp" claim that lies before the current time).                         *)
jwt_decode(token, key, utcnow) ==
    IF token.key # key THEN None
    ELSE IF token.exp # None /\ token.exp[1] < utcnow THEN None
    ELSE Some([sub |-> token.sub, exp |-> token.exp])

credentials_exception ==
    [status |-> HTTP_401_UNAUTHORIZED, detail |-> "Could not validate credentials",
     headers |-> Bearer, user |-> {}]

(* The dependency every protected route resolves first.  user is the set   *)
(* holding the resolved row, empty when the request is rejected.           *)
get_current_user(auth, db_users, utcnow) ==
    IF auth = None
    THEN [status |-> HTTP_401_UNAUTHORIZED, detail |-> "Not authenticated",
          headers |-> Bearer, user |-> {}]
    ELSE LET payload == jwt_decode(auth[1], SECRET_KEY, utcnow) IN
         IF payload = None THEN credentials_exception
         ELSE IF payload[1].sub = None THEN credentials_exception
         ELSE LET found == {u \in db_users : u.username = payload[1].sub[1]} IN
              IF found = {} THEN credentials_exception
              ELSE [status |-> HTTP_200_OK, detail |-> "", headers |-> {},
                    user |-> found]

Unauthorized(op, auth, cu) ==
    Response(op, auth, 0, None, FALSE, cu.status, cu.detail, cu.headers, {})

(* ------------------------------- Init ---------------------------------- *)
IdleSlot == [pc |-> "idle", user |-> None, held |-> FALSE]

Init ==
    /\ users = {}
    /\ tasks = {}
    /\ now = 0
    /\ inflight = [s \in 1..MaxInFlight |-> IdleSlot]
    /\ resp = NoResp

(* ----------------------------- routes/auth ----------------------------- *)
FreeSlot(s) ==
    /\ inflight[s].pc = "idle"
    /\ \A r \in 1..MaxInFlight : r < s => inflight[r].pc # "idle"

UsernameTaken(db_users, username) == \E u \in db_users : u.username = username
EmailTaken(db_users, email) == \E u \in db_users : u.email = email

(* The query by username comparing the wrong column.                       *)
existing_user_by_username_as_email(db_users, user) ==
    {u \in db_users : u.email = user.username}

(* query(User).filter(User.username == user.username).first()              *)
existing_user_by_username(db_users, user) ==
    {u \in db_users : u.username = user.username}

(* query(User).filter(User.email == user.email).first()                    *)
existing_user_by_email(db_users, user) ==
    {u \in db_users : u.email = user.email}

(* The users table without its unique indexes.                             *)
NoUniqueIndex(db_users, row) == FALSE

(* The unique indexes of users.username and users.email: the INSERT of a   *)
(* row that repeats either raises IntegrityError.                          *)
UniqueViolation(db_users, row) ==
    \/ UsernameTaken(db_users, row.username)
    \/ EmailTaken(db_users, row.email)

(* register_user, first statement: the request arrives and the query by    *)
(* username runs.  held records whether the username or the email was      *)
(* stored when the request arrived (history, read by no handler).          *)
register_user_username(s, user) ==
    LET held == UsernameTaken(users, user.username) \/ EmailTaken(users, user.email) IN
    /\ FreeSlot(s)
    /\ IF existing_user_by_username(users, user) # {}
       THEN /\ resp = NoResp
            /\ resp' = Response("register_user", None, 0, Some(user), held,
                                HTTP_400_BAD_REQUEST, "Username already registered",
                                {}, {})
            /\ UNCHANGED inflight
       ELSE /\ inflight' = [inflight EXCEPT ![s] =
                               [pc |-> "email", user |-> Some(user), held |-> held]]
            /\ UNCHANGED resp
    /\ UNCHANGED <<users, tasks, now>>

(* register_user, second statement: the query by email.                    *)
register_user_email(s) ==
    /\ inflight[s].pc = "email"
    /\ LET user == inflight[s].user[1] IN
       IF existing_user_by_email(users, user) # {}
       THEN /\ resp = NoResp
            /\ resp' = Response("register_user", None, 0, Some(user), inflight[s].held,
                                HTTP_400_BAD_REQUEST, "Email already registered",
                                {}, {})
            /\ inflight' = [inflight EXCEPT ![s] = IdleSlot]
       ELSE /\ inflight' = [inflight EXCEPT ![s].pc = "commit"]
            /\ UNCHANGED resp
    /\ UNCHANGED <<users, tasks, now>>

(* register_user, the rest: hash, add, commit, refresh, return.            *)
register_user_commit(s, salt) ==
    /\ inflight[s].pc = "commit"
    /\ resp = NoResp
    /\ LET user == inflight[s].user[1]
           new_user == [id |-> NextId(users),
                        username |-> user.username,
                        email |-> user.email,
                        hashed_password |-> hash_password(user.password, salt),
                        created_at |-> now]
       IN  IF UniqueViolation(users, new_user)
           THEN /\ resp' = ServerError("register_user", None, 0, Some(user),
                                       inflight[s].held)
                /\ UNCHANGED users
           ELSE /\ new_user.id <= MaxUserId
                /\ users' = users \cup {new_user}
                /\ resp' = Response("register_user", None, 0, Some(user),
                                    inflight[s].held, HTTP_201_CREATED, "", {},
                                    {UserResponse(new_user)})
    /\ inflight' = [inflight EXCEPT ![s] = IdleSlot]
    /\ UNCHANGED <<tasks, now>>

(* A login that tells an unknown username from a wrong password.           *)
login_response_telling(db_users, user, utcnow) ==
    LET found == {u \in db_users : u.username = user.username} IN
    IF found = {}
    THEN Response("login_user", None, 0, Some(user), FALSE, HTTP_404_NOT_FOUND,
                  "User not found", {}, {})
    ELSE IF ~verify_password(user.password, (CHOOSE u \in found : TRUE).hashed_password)
    THEN Response("login_user", None, 0, Some(user), FALSE, HTTP_401_UNAUTHORIZED,
                  "Incorrect username or password", Bearer, {})
    ELSE Response("login_user", None, 0, Some(user), FALSE, HTTP_200_OK, "", {},
                  {[access_token |->
                        create_access_token([sub |-> Some(user.username)],
                                            Some(ACCESS_TOKEN_EXPIRE_MINUTES), utcnow),
                    token_type |-> "bearer"]})

(* What login_user answers, as a function of the stored users.             *)
login_response(db_users, user, utcnow) ==
    LET found == {u \in db_users : u.username = user.username} IN
    IF found = {} \/ ~verify_password(user.password, (CHOOSE u \in found : TRUE).hashed_password)
    THEN Response("login_user", None, 0, Some(user), FALSE, HTTP_401_UNAUTHORIZED,
                  "Incorrect username or password", Bearer, {})
    ELSE LET db_user == CHOOSE u \in found : TRUE
             access_token == create_access_token([sub |-> Some(db_user.username)],
                                                 Some(ACCESS_TOKEN_EXPIRE_MINUTES),
                                                 utcnow)
         IN  Response("login_user", None, 0, Some(user), FALSE, HTTP_200_OK, "", {},
                      {[access_token |-> access_token, token_type |-> "bearer"]})

login_user(user) ==
    /\ resp = NoResp
    /\ resp' = login_response(users, user, now)
    /\ UNCHANGED <<users, tasks, now, inflight>>

get_current_user_info(auth) ==
    /\ resp = NoResp
    /\ LET cu == get_current_user(auth, users, now) IN
       IF cu.user = {}
       THEN resp' = Unauthorized("get_current_user_info", auth, cu)
       ELSE resp' = Response("get_current_user_info", auth, 0, None, FALSE,
                             HTTP_200_OK, "", {}, {UserResponse(u) : u \in cu.user})
    /\ UNCHANGED <<users, tasks, now, inflight>>

(* ----------------------------- routes/tasks ---------------------------- *)
(* The lookup without its ownership filter.                                *)
owned_task_any_owner(db_tasks, task_id, user_id) ==
    {t \in db_tasks : t.id = task_id}

(* query(Task).filter(Task.id == task_id, Task.user_id == user_id)         *)
owned_task(db_tasks, task_id, user_id) ==
    {t \in db_tasks : t.id = task_id /\ t.user_id = user_id}

(* query(Task).filter(Task.user_id == user_id).all()                       *)
owned_tasks(db_tasks, user_id) == {t \in db_tasks : t.user_id = user_id}

(* model_dump() without exclude_unset: every field, defaults included.     *)
model_dump_all_fields(task_update) ==
    [f \in TaskFields |-> task_update[f]]

(* task_update.model_dump(exclude_unset=True)                              *)
model_dump(task_update) ==
    [f \in task_update.fields_set |-> task_update[f]]

(* for field, value in update_data.items(): setattr(task, field, value)    *)
setattrs(task, update_data) ==
    [f \in DOMAIN task |-> IF f \in DOMAIN update_data THEN update_data[f] ELSE task[f]]

(* updated_at declared without onupdate.                                   *)
flush_update_no_onupdate(task, changed, utcnow) == changed

(* The flush of a loaded row at commit: an UPDATE is emitted only when a   *)
(* column value differs from the loaded one, and only an emitted UPDATE    *)
(* evaluates the onupdate default of updated_at.                           *)
flush_update(task, changed, utcnow) ==
    IF changed = task THEN task ELSE [changed EXCEPT !.updated_at = utcnow]

(* Column(..., nullable=False) on tasks.title                              *)
NotNullViolation(row) == row.title = None

create_task(auth, task) ==
    /\ resp = NoResp
    /\ LET cu == get_current_user(auth, users, now) IN
       IF cu.user = {}
       THEN /\ resp' = Unauthorized("create_task", auth, cu)
            /\ UNCHANGED tasks
       ELSE IF ~TaskCreateValid(task)
       THEN /\ resp' = RequestValidationError("create_task", auth, 0, Some(task))
            /\ UNCHANGED tasks
       ELSE LET current_user == CHOOSE u \in cu.user : TRUE
                new_task == [id |-> NextId(tasks),
                             title |-> Some(task.title),
                             description |-> task.description,
                             is_completed |-> Some(FALSE),
                             created_at |-> now,
                             updated_at |-> now,
                             user_id |-> current_user.id]
            IN  /\ new_task.id \in TaskIds
                /\ tasks' = tasks \cup {new_task}
                /\ resp' = Response("create_task", auth, new_task.id, Some(task), FALSE,
                                    HTTP_201_CREATED, "", {}, {new_task})
    /\ UNCHANGED <<users, now, inflight>>

get_all_tasks(auth) ==
    /\ resp = NoResp
    /\ LET cu == get_current_user(auth, users, now) IN
       IF cu.user = {}
       THEN resp' = Unauthorized("get_all_tasks", auth, cu)
       ELSE LET current_user == CHOOSE u \in cu.user : TRUE
                found == owned_tasks(tasks, current_user.id)
            IN  IF \A t \in found : TaskResponseValid(t)
                THEN resp' = Response("get_all_tasks", auth, 0, None, FALSE,
                                      HTTP_200_OK, "", {}, found)
                ELSE resp' = ServerError("get_all_tasks", auth, 0, None, FALSE)
    /\ UNCHANGED <<users, tasks, now, inflight>>

NotFound(op, auth, task_id) ==
    Response(op, auth, task_id, None, FALSE, HTTP_404_NOT_FOUND, "Task not found", {}, {})

get_task_by_id(auth, task_id) ==
    /\ resp = NoResp
    /\ LET cu == get_current_user(auth, users, now) IN
       IF cu.user = {}
       THEN resp' = Unauthorized("get_task_by_id", auth, cu)
       ELSE LET current_user == CHOOSE u \in cu.user : TRUE
                found == owned_task(tasks, task_id, current_user.id)
            IN  IF found = {}
                THEN resp' = NotFound("get_task_by_id", auth, task_id)
                ELSE IF \A t \in found : TaskResponseValid(t)
                THEN resp' = Response("get_task_by_id", auth, task_id, None, FALSE,
                                      HTTP_200_OK, "", {}, found)
                ELSE resp' = ServerError("get_task_by_id", auth, task_id, None, FALSE)
    /\ UNCHANGED <<users, tasks, now, inflight>>

update_task(auth, task_id, task_update) ==
    /\ resp = NoResp
    /\ LET cu == get_current_user(auth, users, now) IN
       IF cu.user = {}
       THEN /\ resp' = Unauthorized("update_task", auth, cu)
            /\ UNCHANGED tasks
       ELSE IF ~TaskUpdateValid(task_update)
       THEN /\ resp' = RequestValidationError("update_task", auth, task_id,
                                              Some(task_update))
            /\ UNCHANGED tasks
       ELSE LET current_user == CHOOSE u \in cu.user : TRUE
                found == owned_task(tasks, task_id, current_user.id)
            IN  IF found = {}
                THEN /\ resp' = NotFound("update_task", auth, task_id)
                     /\ UNCHANGED tasks
                ELSE LET task == CHOOSE t \in found : TRUE
                         changed == setattrs(task, model_dump(task_update))
                         stored == flush_update(task, changed, now)
                     IN  IF NotNullViolation(stored)
                         THEN /\ resp' = ServerError("update_task", auth, task_id,
                                                     Some(task_update), FALSE)
                              /\ UNCHANGED tasks
                         ELSE /\ tasks' = (tasks \ {task}) \cup {stored}
                              /\ IF TaskResponseValid(stored)
                                 THEN resp' = Response("update_task", auth, task_id,
                                                       Some(task_update), FALSE,
                                                       HTTP_200_OK, "", {}, {stored})
                                 ELSE resp' = ServerError("update_task", auth, task_id,
                                                          Some(task_update), FALSE)
    /\ UNCHANGED <<users, now, inflight>>

delete_task(auth, task_id) ==
    /\ resp = NoResp
    /\ LET cu == get_current_user(auth, users, now) IN
       IF cu.user = {}
       THEN /\ resp' = Unauthorized("delete_task", auth, cu)
            /\ UNCHANGED tasks
       ELSE LET current_user == CHOOSE u \in cu.user : TRUE
                found == owned_task(tasks, task_id, current_user.id)
            IN  IF found = {}
                THEN /\ resp' = NotFound("delete_task", auth, task_id)
                     /\ UNCHANGED tasks
                ELSE /\ tasks' = tasks \ found
                     /\ resp' = Response("delete_task", auth, task_id, None, FALSE,
                                         HTTP_204_NO_CONTENT, "", {}, {})
    /\ UNCHANGED <<users, now, inflight>>

(* ------------------------------ models/user --------------------------- *)
(* A relationship without cascade: the tasks stay.                         *)
cascade_none(db_tasks, user) == db_tasks

(* relationship("Task", back_populates="owner", cascade="all,              *)
(* delete-orphan"): the tasks left when the session deletes user.          *)
cascade_delete(db_tasks, user) == {t \in db_tasks : t.user_id # user.id}

(* A user is deleted through the session (no route of the API does it).    *)
delete_user(user) ==
    /\ resp = NoResp
    /\ user \in users
    /\ users' = users \ {user}
    /\ tasks' = cascade_delete(tasks, user)
    /\ UNCHANGED <<now, inflight, resp>>

(* --------------------------- the environment --------------------------- *)
(* The response is sent and the request's session is closed.               *)
Respond ==
    /\ resp # NoResp
    /\ resp' = NoResp
    /\ UNCHANGED <<users, tasks, now, inflight>>

(* datetime.utcnow() advances.                                             *)
Tick ==
    /\ now + ACCESS_TOKEN_EXPIRE_MINUTES \in ClockValues
    /\ now' = now + ACCESS_TOKEN_EXPIRE_MINUTES
    /\ UNCHANGED <<users, tasks, inflight, resp>>

(* ------------------------- request populations ------------------------ *)
(* Two accounts, as in the end-to-end scenario.                            *)
Profiles ==
    {[username |-> "alice", email |-> "a@x.com", password |-> "secret1"],
     [username |-> "bob", email |-> "b@x.com", password |-> "secret2"]}

(* The token login_user issues to username at time 0.                      *)
SessionToken(username) ==
    create_access_token([sub |-> Some(username)], Some(ACCESS_TOKEN_EXPIRE_MINUTES), 0)

SessionAuths == {None} \cup {Some(SessionToken(u)) : u \in Usernames}
AliceAuth == Some(SessionToken("alice"))

(* The empty body, {"is_completed": true} and {"is_completed": false}.      *)
FlagUpdates ==
    {u \in TaskUpdates : \/ u.fields_set = {}
                         \/ u.fields_set = {"is_completed"} /\ u.is_completed # None}

(* {"is_completed": true} and {"title": t}.                                *)
SimpleUpdates ==
    {u \in TaskUpdates : \/ u.fields_set = {"is_completed"} /\ u.is_completed = Some(TRUE)
                         \/ u.fields_set = {"title"} /\ u.title # None}

FirstTask == [title |-> "Buy milk", description |-> None]

(* Spec: two accounts and their tasks, one register request at a time,     *)
(* the clock standing still.                                               *)
Next ==
    \/ \E user \in Profiles : register_user_username(1, user)
    \/ register_user_email(1)
    \/ register_user_commit(1, "salt1")
    \/ \E user \in Profiles : login_user([username |-> user.username, password |-> user.password])
    \/ \E auth \in SessionAuths, task \in TaskCreates : create_task(auth, task)
    \/ \E auth \in SessionAuths : get_all_tasks(auth)
    \/ \E auth \in SessionAuths, task_id \in TaskIds : get_task_by_id(auth, task_id)
    \/ \E auth \in SessionAuths, task_id \in TaskIds, task_update \in SimpleUpdates :
           update_task(auth, task_id, task_update)
    \/ \E auth \in SessionAuths, task_id \in TaskIds : delete_task(auth, task_id)
    \/ Respond

Spec == Init /\ [][Next]_vars

(* SpecAuth: registration and login, register requests interleaving at    *)
(* their statements, the clock standing still.                             *)
NextAuth ==
    \/ \E s \in 1..MaxInFlight, user \in UserCreates : register_user_username(s, user)
    \/ \E s \in 1..MaxInFlight : register_user_email(s)
    \/ \E s \in 1..MaxInFlight : register_user_commit(s, "salt1")
    \/ \E user \in UserLogins : login_user(user)
    \/ Respond

SpecAuth == Init /\ [][NextAuth]_vars

(* SpecToken: one account, every presentable token on every protected      *)
(* route, the clock advancing.                                             *)
NextToken ==
    \/ \E user \in Profiles : user.username = "alice" /\ register_user_username(1, user)
    \/ register_user_email(1)
    \/ \E salt \in Salts : register_user_commit(1, salt)
    \/ \E user \in UserLogins : login_user(user)
    \/ \E auth \in Authorizations : get_current_user_info(auth)
    \/ \E auth \in Authorizations : create_task(auth, FirstTask)
    \/ \E auth \in Authorizations : get_all_tasks(auth)
    \/ \E auth \in Authorizations, task_id \in TaskIds : get_task_by_id(auth, task_id)
    \/ \E auth \in Authorizations, task_id \in TaskIds, task_update \in FlagUpdates :
           update_task(auth, task_id, task_update)
    \/ \E auth \in Authorizations, task_id \in TaskIds : delete_task(auth, task_id)
    \/ Respond
    \/ Tick

SpecToken == Init /\ [][NextToken]_vars

(* SpecPatch: one account, every TaskUpdate body, the clock standing still. *)
NextPatch ==
    \/ \E user \in Profiles : user.username = "alice" /\ register_user_username(1, user)
    \/ register_user_email(1)
    \/ \E salt \in Salts : register_user_commit(1, salt)
    \/ \E task \in TaskCreates : create_task(AliceAuth, task)
    \/ get_all_tasks(AliceAuth)
    \/ \E task_id \in TaskIds : get_task_by_id(AliceAuth, task_id)
    \/ \E task_id \in TaskIds, task_update \in TaskUpdates :
           update_task(AliceAuth, task_id, task_update)
    \/ \E task_id \in TaskIds : delete_task(AliceAuth, task_id)
    \/ Respond

SpecPatch == Init /\ [][NextPatch]_vars

(* SpecClock: one account, updates of the completion flag and empty        *)
(* updates, the clock advancing.                                           *)
NextClock ==
    \/ \E user \in Profiles : user.username = "alice" /\ register_user_username(1, user)
    \/ register_user_email(1)
    \/ \E salt \in Salts : register_user_commit(1, salt)
    \/ \E task \in TaskCreates : task.description = None /\ create_task(AliceAuth, task)
    \/ \E task_id \in TaskIds, task_update \in FlagUpdates :
           update_task(AliceAuth, task_id, task_update)
    \/ \E task_id \in TaskIds : delete_task(AliceAuth, task_id)
    \/ Respond
    \/ Tick

SpecClock == Init /\ [][NextClock]_vars

(* SpecField: one account, create_task and update_task over titles at and  *)
(* beyond the limits of the length and over null values, the clock         *)
(* standing still.                                                         *)
NextField ==
    \/ \E user \in Profiles : user.username = "alice" /\ register_user_username(1, user)
    \/ register_user_email(1)
    \/ register_user_commit(1, "salt1")
    \/ \E task \in TaskCreateInputs : create_task(AliceAuth, task)
    \/ \E task_id \in TaskIds, task_update \in TaskUpdateInputs :
           update_task(AliceAuth, task_id, task_update)
    \/ Respond

SpecField == Init /\ [][NextField]_vars

(* SpecCascade: two accounts creating and deleting tasks, and users        *)
(* deleted through the session.                                            *)
NextCascade ==
    \/ \E user \in Profiles : register_user_username(1, user)
    \/ register_user_email(1)
    \/ register_user_commit(1, "salt1")
    \/ \E auth \in SessionAuths : create_task(auth, FirstTask)
    \/ \E auth \in SessionAuths : get_all_tasks(auth)
    \/ \E auth \in SessionAuths, task_id \in TaskIds : delete_task(auth, task_id)
    \/ Respond
    \/ \E user \in users : delete_user(user)

SpecCascade == Init /\ [][NextCascade]_vars

(* ============================== claims ================================= *)
(* The request answered by this step is a call of op.                      *)
Answers(op) == resp = NoResp /\ resp'.op = op

(* The stored user a bearer token names in its subject claim.              *)
Identity(auth) ==
    {u \in users : auth # None /\ auth[1].sub = Some(u.username)}

TaskById(db_tasks, task_id) == CHOOSE t \in db_tasks : t.id = task_id

(* C1 - isolation: a call of get_all_tasks, get_task_by_id, update_task or *)
(* delete_task under user B's identity leaves every task of another user   *)
(* stored and unmodified, returns no task of another user, and, aimed at   *)
(* the id of another user's task, answers 404.                             *)
C1_Isolation ==
    [][(resp = NoResp /\ resp'.op \in {"get_all_tasks", "get_task_by_id",
                                       "update_task", "delete_task"})
       => LET B == {u.id : u \in Identity(resp'.auth)} IN
          /\ \A t \in tasks : t.user_id \notin B => t \in tasks'
          /\ \A t \in resp'.body : t.user_id \in B
          /\ (/\ B # {}
              /\ \E t \in tasks : t.id = resp'.task_id /\ t.user_id \notin B)
             => resp'.status = HTTP_404_NOT_FOUND]_vars

(* B asked to update A's task and got 404, while B has a task of their own. *)
C1_Witness ==
    /\ resp.op = "update_task"
    /\ resp.status = HTTP_404_NOT_FOUND
    /\ Identity(resp.auth) # {}
    /\ \E t \in tasks : /\ t.id = resp.task_id
                        /\ \A u \in Identity(resp.auth) : t.user_id # u.id
    /\ \E t \in tasks : \E u \in Identity(resp.auth) : t.user_id = u.id

(* C2 - a register_user request whose username or email was held by a      *)
(* stored user when it arrived is answered 400, and the users table is     *)
(* left as it was.                                                         *)
C2_DuplicateRejected ==
    [][(Answers("register_user") /\ resp'.held)
       => /\ resp'.status = HTTP_400_BAD_REQUEST
          /\ users' = users]_vars

(* The second registration of a username, under a different email that no  *)
(* user holds, was rejected.                                               *)
C2_Witness ==
    /\ resp.op = "register_user"
    /\ resp.held
    /\ resp.status = HTTP_400_BAD_REQUEST
    /\ \E u \in users : /\ u.username = resp.req[1].username
                        /\ u.email # resp.req[1].email
    /\ ~EmailTaken(users, resp.req[1].email)

(* C3 - no two stored users share a username, and no two share an email.   *)
C3_UniqueUsers ==
    \A u1, u2 \in users :
        (u1.username = u2.username \/ u1.email = u2.email \/ u1.id = u2.id) => u1 = u2

(* Two register requests passed their existence checks for the same        *)
(* username; one committed, the commit of the other was refused.           *)
C3_Witness ==
    /\ resp.op = "register_user"
    /\ resp.status = HTTP_500_INTERNAL_SERVER_ERROR
    /\ ~resp.held
    /\ UsernameTaken(users, resp.req[1].username)

(* C4 - a protected route goes past get_current_user exactly when the      *)
(* token is signed with the secret key, is not expired, carries a subject  *)
(* and the subject is the username of a stored user; otherwise the answer  *)
(* is 401, carries no user and no task, and the store is left as it was.   *)
ProtectedOps ==
    {"get_current_user_info", "create_task", "get_all_tasks", "get_task_by_id",
     "update_task", "delete_task"}

TokenAccepted(auth, db_users, utcnow) ==
    /\ auth # None
    /\ auth[1].key = SECRET_KEY
    /\ auth[1].exp # None => auth[1].exp[1] >= utcnow
    /\ auth[1].sub # None
    /\ \E u \in db_users : Some(u.username) = auth[1].sub

C4_TokenGate ==
    [][(resp = NoResp /\ resp'.op \in ProtectedOps)
       => IF TokenAccepted(resp'.auth, users, now)
          THEN resp'.status # HTTP_401_UNAUTHORIZED
          ELSE /\ resp'.status = HTTP_401_UNAUTHORIZED
               /\ resp'.body = {}
               /\ users' = users
               /\ tasks' = tasks]_vars

(* The token of a stored user, correctly signed, presented after its       *)
(* expiry on a task route while the user has a task: 401.                  *)
C4_Witness ==
    /\ resp.op = "delete_task"
    /\ resp.status = HTTP_401_UNAUTHORIZED
    /\ resp.auth # None
    /\ resp.auth[1].key = SECRET_KEY
    /\ Identity(resp.auth) # {}
    /\ resp.auth[1].exp # None
    /\ resp.auth[1].exp[1] < now
    /\ tasks # {}

(* C5 - login_user answers a username that is not stored and a stored      *)
(* username with a wrong password alike: same status, detail, headers and  *)
(* body.                                                                   *)
WrongPassword(db_users, login) ==
    \E u \in db_users :
        /\ u.username = login.username
        /\ u.hashed_password # hash_password(login.password, u.hashed_password.salt)

Visible(r) ==
    [status |-> r.status, detail |-> r.detail, headers |-> r.headers, body |-> r.body]

C5_EnumerationSafe ==
    \A unknown, wrong \in UserLogins :
        (~UsernameTaken(users, unknown.username) /\ WrongPassword(users, wrong))
        => /\ Visible(login_response(users, unknown, now))
              = Visible(login_response(users, wrong, now))
           /\ login_response(users, wrong, now).status = HTTP_401_UNAUTHORIZED

(* A wrong password for a stored username was answered while another       *)
(* username is not stored.                                                 *)
C5_Witness ==
    /\ resp.op = "login_user"
    /\ WrongPassword(users, resp.req[1])
    /\ resp.status = HTTP_401_UNAUTHORIZED
    /\ \E u \in Usernames : ~UsernameTaken(users, u)

(* C6 - a login with the username and the password a stored user was       *)
(* registered with is answered 200 with a token that get_current_user, at  *)
(* every time up to the token's expiry, resolves to that user; login_user  *)
(* changes no user and no task.                                            *)
RegisteredWith(u, login) ==
    /\ u.username = login.username
    /\ u.hashed_password = hash_password(login.password, u.hashed_password.salt)

C6_RoundTrip ==
    [][Answers("login_user")
       => /\ users' = users
          /\ tasks' = tasks
          /\ \A u \in users :
                RegisteredWith(u, resp'.req[1])
                => /\ resp'.status = HTTP_200_OK
                   /\ resp'.body # {}
                   /\ \A b \in resp'.body :
                         /\ b.access_token.exp # None
                         /\ b.access_token.exp[1] > now
                         /\ \A t \in now..b.access_token.exp[1] :
                               get_current_user(Some(b.access_token), users', t).user
                                   = {u}]_vars

(* A registered user logged in with the registered credentials.            *)
C6_Witness ==
    /\ resp.op = "login_user"
    /\ resp.status = HTTP_200_OK
    /\ \E u \in users : RegisteredWith(u, resp.req[1])

(* C7 - a successful update_task sets each of title, description and       *)
(* is_completed that the body supplied to the supplied value, keeps the    *)
(* others, keeps the task's id, owner and created_at, and keeps every      *)
(* other task.                                                             *)
C7_PartialUpdate ==
    [][(Answers("update_task") /\ resp'.status = HTTP_200_OK)
       => LET task_update == resp'.req[1]
              old == TaskById(tasks, resp'.task_id)
              new == TaskById(tasks', resp'.task_id)
          IN  /\ \A f \in TaskFields :
                    new[f] = IF f \in task_update.fields_set
                             THEN task_update[f] ELSE old[f]
              /\ new.id = old.id
              /\ new.user_id = old.user_id
              /\ new.created_at = old.created_at
              /\ tasks' \ {new} = tasks \ {old}
              /\ users' = users]_vars

(* {"is_completed": true} was applied to a task that has a description,    *)
(* next to another task.                                                   *)
C7_Witness ==
    /\ resp.op = "update_task"
    /\ resp.status = HTTP_200_OK
    /\ resp.req[1].fields_set = {"is_completed"}
    /\ resp.req[1].is_completed = Some(TRUE)
    /\ \E t \in tasks : /\ t.id = resp.task_id
                        /\ t.description # None
                        /\ t.is_completed = Some(TRUE)
    /\ Cardinality(tasks) > 1

(* C8 - as claimed: a register, create, update or delete request answered  *)
(* with anything but its success status leaves users and tasks as they     *)
(* were.                                                                   *)
Mutations == {"register_user", "create_task", "update_task", "delete_task"}
SuccessStatus == {HTTP_200_OK, HTTP_201_CREATED, HTTP_204_NO_CONTENT}

C8_RejectedLeavesState ==
    [][(resp = NoResp /\ resp'.op \in Mutations /\ resp'.status \notin SuccessStatus)
       => users' = users /\ tasks' = tasks]_vars

(* C9 - as claimed: every successful update_task, whatever its body, moves *)
(* updated_at strictly forward (granted that the clock has moved since the *)
(* task was last written).                                                 *)
C9_StrictlyForward ==
    [][(/\ Answers("update_task")
        /\ resp'.status = HTTP_200_OK
        /\ now > TaskById(tasks, resp'.task_id).updated_at)
       => TaskById(tasks', resp'.task_id).updated_at
              > TaskById(tasks, resp'.task_id).updated_at]_vars

(* C9 as amended: a successful update_task that changes the value of       *)
(* title, description or is_completed sets updated_at to the time of the   *)
(* update, not earlier than before and later when the clock has moved      *)
(* since; one that changes no value keeps updated_at; and no step moves    *)
(* the updated_at of a task that stays stored backwards.                   *)
C9_RefreshedOnChange ==
    [][/\ (Answers("update_task") /\ resp'.status = HTTP_200_OK)
          => LET old == TaskById(tasks, resp'.task_id)
                 new == TaskById(tasks', resp'.task_id)
             IN  IF \E f \in TaskFields : new[f] # old[f]
                 THEN /\ new.updated_at = now
                      /\ new.updated_at >= old.updated_at
                      /\ now > old.updated_at => new.updated_at > old.updated_at
                 ELSE new.updated_at = old.updated_at
       /\ \A t1 \in tasks : \A t2 \in tasks' :
             (t1.id = t2.id /\ t1.created_at = t2.created_at)
             => t2.updated_at >= t1.updated_at]_vars

(* A task was completed at a later time than it was created.               *)
C9_Witness ==
    /\ resp.op = "update_task"
    /\ resp.status = HTTP_200_OK
    /\ resp.req[1].fields_set = {"is_completed"}
    /\ \E t \in resp.body : t.updated_at > t.created_at /\ t.updated_at = now

(* C10 - deleting a user removes that user's tasks in the same step and    *)
(* keeps all others, and the owner of every stored task is a stored user.  *)
C10_Cascade ==
    /\ [](\A t \in tasks : \E u \in users : u.id = t.user_id)
    /\ [][\A u \in users \ users' :
             tasks' = {t \in tasks : t.user_id # u.id}]_vars

(* The first user, who owned a task, is gone; the second user and their    *)
(* task are stored.                                                        *)
C10_Witness ==
    /\ Cardinality(users) = 1
    /\ \A u \in users : u.id > 1
    /\ Cardinality(tasks) = 1
    /\ \A t \in tasks : t.id > 1

(* The stored title is a string of min_length to max_length characters.    *)
TitleWithinLimits(t) ==
    /\ t.title # None
    /\ Len(t.title[1]) >= min_length
    /\ Len(t.title[1]) <= max_length

(* The stored completion flag is true or false.                            *)
FlagIsBoolean(t) == t.is_completed \in {Some(TRUE), Some(FALSE)}

(* C11 - as claimed: in every state reached by create_task and update_task *)
(* requests, patches with null for title or is_completed among them, every *)
(* stored task has a non-null title of 1 to 200 characters and a           *)
(* completion flag that is true or false, and a task just created is       *)
(* stored with the flag false.                                             *)
C11_TaskFieldInvariant ==
    /\ \A t \in tasks : TitleWithinLimits(t) /\ FlagIsBoolean(t)
    /\ (resp.op = "create_task" /\ resp.status = HTTP_201_CREATED)
       => \A t \in resp.body : t \in tasks /\ t.is_completed = Some(FALSE)

====
